---- MODULE Spec2Model ----
(***************************************************************************)
(* Model of dashboard.py: the basic-auth gate with its login_attempts      *)
(* counter, the /api/data snapshot builder (get_system_data), the          *)
(* /api/logs handler (api_logs), the systemctl status parser               *)
(* (get_service_status) and the byte formatter (format_bytes).             *)
(*                                                                         *)
(* Text is modelled as a sequence of atoms.  An atom is either a single    *)
(* character (" ", "\n", "(", ")", letters of an error message) or a word  *)
(* that contains no whitespace, no parenthesis and no part of the marker   *)
(* "Active:" other than the marker itself, so that str.split, str.strip    *)
(* and the substring test of the code act on atoms as on characters.       *)
(*                                                                         *)
(* A byte count is a little-endian sequence of base-1024 limbs, so that    *)
(* 1024**4 and larger counts stay inside TLC's integers; division by       *)
(* 1024.0 is exact on the counts used (fewer than 53 significant bits).    *)
(***************************************************************************)
EXTENDS Integers, Sequences, FiniteSets, TLC

VARIABLES
    login_attempts,  \* dashboard.py:53, the global dict, as a function on IPs
    pc,              \* per request thread: where it is in decorated/check_auth
    req,             \* per request thread: the request being served
    loc,             \* per request thread: check_auth's locals (tmp, delayed)
    resp,            \* per request thread: the response returned, or "none"
    env,             \* what the stubbed host presented to the last handler body
    ext_calls,       \* external commands the last handler body invoked, in order
    hist,            \* ghost: per IP, failures completed since the last success
    call,            \* component-level: the function and arguments applied
    ret              \* component-level: its return value, or "none"

vars == <<login_attempts, pc, req, loc, resp, env, ext_calls, hist, call, ret>>

-----------------------------------------------------------------------------
(* Configuration: DEFAULT_CONFIG, dashboard.py:13-23 and 49-51.            *)

USERNAME == "admin"
PASSWORD == "admin"
SERVICES == <<"nginx", "ssh", "docker", "postgresql", "redis">>

Range(s) == {s[i] : i \in DOMAIN s}

Take(s, n) == SubSeq(s, 1, IF Len(s) < n THEN Len(s) ELSE n)

-----------------------------------------------------------------------------
(* format_bytes, dashboard.py:125-130.                                     *)

Kilo == 1024
Half == Kilo \div 2

Units == <<"B", "KB", "MB", "GB", "TB">>

\* A float under the loop: whole = limbs of the integer part (little-endian),
\* frac = limbs of the fraction, most significant first.
AllZero(s) == \A i \in DOMAIN s : s[i] = 0

\* Mutant: the comparison written bytes <= 1024.0.
Below1024_Inclusive(f) ==
    \/ Len(f.whole) <= 1
    \/ AllZero(Tail(f.whole))
    \/ (f.whole[1] = 0 /\ f.whole[2] = 1 /\ AllZero(Tail(Tail(f.whole)))
          /\ AllZero(f.frac))

\* bytes < 1024.0
Below1024(f) == Len(f.whole) <= 1 \/ AllZero(Tail(f.whole))

\* bytes /= 1024.0
Div1024(f) ==
    IF f.whole = <<>>
    THEN [whole |-> <<>>, frac |-> <<0>> \o f.frac]
    ELSE [whole |-> Tail(f.whole), frac |-> <<Head(f.whole)>> \o f.frac]

RECURSIVE LimbsValue(_)
LimbsValue(s) == IF s = <<>> THEN 0 ELSE Head(s) + Kilo * LimbsValue(Tail(s))

\* frac * 10 as [carry, rest]: the integer part and the remaining fraction.
RECURSIVE TimesTen(_)
TimesTen(fr) ==
    IF fr = <<>> THEN [carry |-> 0, rest |-> <<>>]
    ELSE LET low == TimesTen(Tail(fr))
             x   == 10 * Head(fr) + low.carry
         IN  [carry |-> x \div Kilo, rest |-> <<x % Kilo>> \o low.rest]

\* The fraction r compared with one half: -1, 0 or 1.
CmpHalf(r) ==
    IF r = <<>> THEN -1
    ELSE IF Head(r) > Half THEN 1
    ELSE IF Head(r) < Half THEN -1
    ELSE IF AllZero(Tail(r)) THEN 0 ELSE 1

\* f"{bytes:.1f}": correctly rounded, ties to even, as [int, dec].
Fmt1(f) ==
    LET tt    == TimesTen(f.frac)
        t     == 10 * LimbsValue(f.whole) + tt.carry
        c     == CmpHalf(tt.rest)
        up    == IF c > 0 \/ (c = 0 /\ t % 2 = 1) THEN 1 ELSE 0
        tenth == t + up
    IN  [int |-> tenth \div 10, dec |-> tenth % 10]

RECURSIVE format_bytes_loop(_, _)
format_bytes_loop(f, i) ==
    IF i > Len(Units) THEN Fmt1(f) @@ [unit |-> "PB"]
    ELSE IF Below1024(f) THEN Fmt1(f) @@ [unit |-> Units[i]]
    ELSE format_bytes_loop(Div1024(f), i + 1)

format_bytes(bytes) == format_bytes_loop([whole |-> bytes, frac |-> <<>>], 1)

-----------------------------------------------------------------------------
(* format_uptime, dashboard.py:132-136.                                    *)

SecondsPerDay == 86400
SecondsPerHour == 3600
SecondsPerMinute == 60

format_uptime(seconds) ==
    [days    |-> seconds \div SecondsPerDay,
     hours   |-> (seconds % SecondsPerDay) \div SecondsPerHour,
     minutes |-> (seconds % SecondsPerHour) \div SecondsPerMinute]

-----------------------------------------------------------------------------
(* Python string primitives on atom sequences.                             *)

Whitespace == {" ", "\t", "\n"}

RECURSIVE LStrip(_, _)
LStrip(s, chars) ==
    IF s # <<>> /\ Head(s) \in chars THEN LStrip(Tail(s), chars) ELSE s

RECURSIVE RStrip(_, _)
RStrip(s, chars) ==
    IF s # <<>> /\ s[Len(s)] \in chars
    THEN RStrip(SubSeq(s, 1, Len(s) - 1), chars) ELSE s

\* str.strip(chars)
Strip(s, chars) == RStrip(LStrip(s, chars), chars)

\* str.split(sep) for a one-character separator: never drops empty pieces.
RECURSIVE SplitSep(_, _, _)
SplitSep(s, sep, cur) ==
    IF s = <<>> THEN <<cur>>
    ELSE IF Head(s) = sep THEN <<cur>> \o SplitSep(Tail(s), sep, <<>>)
    ELSE SplitSep(Tail(s), sep, Append(cur, Head(s)))

\* str.split(): splits on runs of whitespace, drops empty pieces.
RECURSIVE SplitWs(_, _)
SplitWs(s, cur) ==
    IF s = <<>> THEN (IF cur = <<>> THEN <<>> ELSE <<cur>>)
    ELSE IF Head(s) \in Whitespace
         THEN (IF cur = <<>> THEN <<>> ELSE <<cur>>) \o SplitWs(Tail(s), <<>>)
         ELSE SplitWs(Tail(s), Append(cur, Head(s)))

\* 'Active:' in line
Marker == "Active:"
HasMarker(line) == \E i \in DOMAIN line : line[i] = Marker

-----------------------------------------------------------------------------
(* get_service_status, dashboard.py:78-111.                                *)
(* run is what subprocess.run did: [kind |-> "ok", stdout |-> text] or     *)
(* [kind |-> "raise", msg |-> str(e)].                                     *)

ErrCut == 20

Unknown == <<"unknown">>

\* The body of the for loop (lines 93-99) on one line, st = [active, sub].
ParseLine(st, raw) ==
    LET line  == Strip(raw, Whitespace)
        parts == SplitWs(line, <<>>)
    IN  IF ~HasMarker(line) \/ Len(parts) < 2 THEN st
        ELSE [active |-> parts[2],
              sub    |-> IF Len(parts) >= 3
                         THEN Strip(parts[3], {"(", ")"})
                         ELSE st.sub]

RECURSIVE ParseLines(_, _)
ParseLines(st, lines) ==
    IF lines = <<>> THEN st
    ELSE ParseLines(ParseLine(st, Head(lines)), Tail(lines))

\* Lines 88-105: the parse of result.stdout.
ParseStatus(output) ==
    ParseLines([active |-> Unknown, sub |-> Unknown], SplitSep(output, "\n", <<>>))

SystemctlCall(service_name) == [cmd |-> "systemctl", unit |-> service_name]

\* Mutant: the error text is not cut.
get_service_status_NoCut(service_name, run) ==
    [value |-> IF run.kind = "ok"
               THEN LET st == ParseStatus(run.stdout)
                    IN  [name |-> service_name, active |-> st.active, sub |-> st.sub]
               ELSE [name |-> service_name, active |-> <<"error">>, sub |-> run.msg],
     calls |-> <<SystemctlCall(service_name)>>]

\* The value returned and the external commands invoked on the way.
get_service_status(service_name, run) ==
    [value |-> IF run.kind = "ok"
               THEN LET st == ParseStatus(run.stdout)
                    IN  [name |-> service_name, active |-> st.active, sub |-> st.sub]
               ELSE [name |-> service_name, active |-> <<"error">>,
                     sub |-> Take(run.msg, ErrCut)],
     calls |-> <<SystemctlCall(service_name)>>]

-----------------------------------------------------------------------------
(* get_service_logs, dashboard.py:113-123, and the body of api_logs,       *)
(* dashboard.py:218-224.                                                   *)

JournalctlCall(service_name, lines) ==
    [cmd |-> "journalctl", unit |-> service_name, n |-> lines]

\* Mutant: a failed query returns no text at all.
get_service_logs_Swallow(service_name, lines, run) ==
    [value |-> IF run.kind = "ok" THEN run.stdout ELSE <<>>,
     calls |-> <<JournalctlCall(service_name, lines)>>]

get_service_logs(service_name, lines, run) ==
    [value |-> IF run.kind = "ok" THEN run.stdout
               ELSE <<"Error fetching logs: ">> \o run.msg,
     calls |-> <<JournalctlCall(service_name, lines)>>]

NotAllowed == [service |-> "not allowed", logs |-> <<"not allowed">>]

api_logs(service_name, lines, run) ==
    LET logs == get_service_logs(service_name, lines, run)
    IN  [value |-> IF service_name \in Range(SERVICES)
                   THEN [service |-> service_name, logs |-> logs.value]
                   ELSE NotAllowed,
         calls |-> logs.calls]

-----------------------------------------------------------------------------
(* get_system_data, dashboard.py:138-204.                                  *)
(* host is the stubbed machine: reading (raw metrics), failing (the psutil *)
(* reads that raise), svc (what subprocess.run does for each entry of      *)
(* SERVICES) and procs (what process_iter yields).  A percentage is an     *)
(* integer count of sixteenths of a percent, so every value is an exact    *)
(* float and f"{x:.1f}" rounds it to tenths, ties to even.                 *)

TopN == 10
NameCut == 30
UserCut == 15
PctGrid == 16

\* The psutil reads in the order of lines 140-164.
MetricReads == <<"cpu_percent", "cpu_count", "getloadavg", "virtual_memory",
                 "disk_usage", "net_io_counters", "boot_time">>

\* f"{x:.1f}" for x = s / PctGrid, as [int, dec].
FmtPct(s) ==
    LET t     == (10 * s) \div PctGrid
        r     == (10 * s) % PctGrid
        up    == IF 2 * r > PctGrid \/ (2 * r = PctGrid /\ t % 2 = 1) THEN 1 ELSE 0
        tenth == t + up
    IN  [int |-> tenth \div 10, dec |-> tenth % 10]

\* float(x['cpu'].strip('%')), in tenths.
SortKey(x) == 10 * x.cpu.int + x.cpu.dec

\* Mutant: sorted without reverse=True.
RECURSIVE InsertDesc_Asc(_, _)
InsertDesc_Asc(sorted, x) ==
    IF sorted = <<>> THEN <<x>>
    ELSE IF SortKey(Head(sorted)) <= SortKey(x)
         THEN <<Head(sorted)>> \o InsertDesc_Asc(Tail(sorted), x)
         ELSE <<x>> \o sorted

\* sorted(..., reverse=True) is stable: equal keys keep their order.
RECURSIVE InsertDesc(_, _)
InsertDesc(sorted, x) ==
    IF sorted = <<>> THEN <<x>>
    ELSE IF SortKey(Head(sorted)) >= SortKey(x)
         THEN <<Head(sorted)>> \o InsertDesc(Tail(sorted), x)
         ELSE <<x>> \o sorted

RECURSIVE SortedDesc(_, _)
SortedDesc(acc, list) ==
    IF list = <<>> THEN acc
    ELSE SortedDesc(InsertDesc(acc, Head(list)), Tail(list))

\* Lines 173-180: one process turned into an entry of top_processes.
ProcEntry(info) ==
    [pid  |-> info.pid,
     name |-> Take(info.name, NameCut),
     cpu  |-> FmtPct(info.cpu_percent),
     mem  |-> FmtPct(info.memory_percent),
     user |-> Take(info.username, UserCut)]

Skipped == {"NoSuchProcess", "AccessDenied"}

\* Lines 170-182: [kind |-> "ok", list] or [kind |-> "raise", exc].
RECURSIVE CollectProcs(_, _)
CollectProcs(acc, procs) ==
    IF procs = <<>> THEN [kind |-> "ok", list |-> acc]
    ELSE LET p == Head(procs)
         IN  IF p.state = "ok"
             THEN CollectProcs(Append(acc, ProcEntry(p)), Tail(procs))
             ELSE IF p.state \in Skipped
             THEN CollectProcs(acc, Tail(procs))
             ELSE [kind |-> "raise", exc |-> p.state]

\* The first read of order that is in failing, or "none".
RECURSIVE FirstFailing(_, _)
FirstFailing(order, failing) ==
    IF order = <<>> THEN "none"
    ELSE IF Head(order) \in failing THEN Head(order)
    ELSE FirstFailing(Tail(order), failing)

\* Mutant: services whose query failed are left out of the list.
ServiceQueries_DropFailed(svc) ==
    SelectSeq([i \in 1..Len(SERVICES) |-> get_service_status(SERVICES[i], svc[i])],
              LAMBDA q : q.value.active # <<"error">>)

\* Line 167: the list comprehension over SERVICES.
ServiceQueries(svc) ==
    [i \in 1..Len(SERVICES) |-> get_service_status(SERVICES[i], svc[i])]

RECURSIVE Flatten(_)
Flatten(ss) == IF ss = <<>> THEN <<>> ELSE Head(ss) \o Flatten(Tail(ss))

\* Lines 140-164 on a reading none of whose reads failed.
Metrics(r) ==
    [cpu_percent   |-> r.cpu_percent,
     cpu_count     |-> r.cpu_count,
     load_avg      |-> r.load_avg,
     mem_total     |-> format_bytes(r.mem_total),
     mem_used      |-> format_bytes(r.mem_used),
     mem_available |-> format_bytes(r.mem_available),
     mem_percent   |-> r.mem_percent,
     disk_total    |-> format_bytes(r.disk_total),
     disk_used     |-> format_bytes(r.disk_used),
     disk_free     |-> format_bytes(r.disk_free),
     disk_percent  |-> r.disk_percent,
     net_sent      |-> format_bytes(r.net_sent),
     net_recv      |-> format_bytes(r.net_recv),
     uptime        |-> format_uptime(r.now - r.boot_time)]

\* Mutant: a failed read is replaced by a placeholder and the build goes on.
get_system_data_Partial(host) ==
    LET bad   == FirstFailing(MetricReads, host.failing)
        q     == ServiceQueries(host.svc)
        calls == Flatten([i \in DOMAIN q |-> q[i].calls])
        c     == IF "process_iter" \in host.failing
                 THEN [kind |-> "ok", list |-> <<>>]
                 ELSE CollectProcs(<<>>, host.procs)
    IN  [kind  |-> "ok",
         calls |-> calls,
         value |-> [metrics       |-> IF bad # "none" THEN [placeholder |-> "N/A"]
                                      ELSE Metrics(host.reading),
                    services      |-> [i \in DOMAIN q |-> q[i].value],
                    top_processes |-> IF c.kind = "raise" THEN <<>>
                                      ELSE Take(SortedDesc(<<>>, c.list), TopN)]]

get_system_data(host) ==
    LET bad == FirstFailing(MetricReads, host.failing)
    IN  IF bad # "none" THEN [kind |-> "raise", exc |-> bad, calls |-> <<>>]
        ELSE
        LET q     == ServiceQueries(host.svc)
            calls == Flatten([i \in DOMAIN q |-> q[i].calls])
            c     == IF "process_iter" \in host.failing
                     THEN [kind |-> "raise", exc |-> "process_iter"]
                     ELSE CollectProcs(<<>>, host.procs)
        IN  IF c.kind = "raise"
            THEN [kind |-> "raise", exc |-> c.exc, calls |-> calls]
            ELSE [kind  |-> "ok",
                  calls |-> calls,
                  value |-> [metrics       |-> Metrics(host.reading),
                             services      |-> [i \in DOMAIN q |-> q[i].value],
                             top_processes |-> Take(SortedDesc(<<>>, c.list), TopN)]]

-----------------------------------------------------------------------------
(* The request path: decorated (dashboard.py:71-75) around check_auth      *)
(* (dashboard.py:55-61).  Flask serves requests on threads, so check_auth  *)
(* is taken one shared-memory access at a time: the read of line 57, the   *)
(* read of line 60 and the store of line 60.                               *)

Threshold == 5
DefaultLines == 100

Threads == {"t1", "t2"}
IPs == {"10.0.0.1", "10.0.0.2"}

Basic(u, p) == [kind |-> "basic", username |-> u, password |-> p]

Good(r) == r.auth = Basic(USERNAME, PASSWORD)

\* Bounds of the model: the largest count of failures followed, for the
\* first client and for any other.
MaxAttempts == 7
MaxOther == 1
Cap(ip) == IF ip = "10.0.0.1" THEN MaxAttempts ELSE MaxOther

None == [kind |-> "none"]
NoLoc == [delayed |-> FALSE, seen |-> 0, tmp |-> 0, ok |-> FALSE]

\* authenticate(), dashboard.py:63-67
authenticate == [kind |-> "401", body |-> "Authentication required"]

Init ==
    /\ login_attempts = [ip \in IPs |-> 0]
    /\ pc = [t \in Threads |-> "idle"]
    /\ req = [t \in Threads |-> None]
    /\ loc = [t \in Threads |-> NoLoc]
    /\ resp = [t \in Threads |-> None]
    /\ env = None
    /\ ext_calls = <<>>
    /\ hist = [ip \in IPs |-> 0]
    /\ call = None
    /\ ret = None

\* A request r arrives on thread t; lines 72-73 up to the call of check_auth.
Request(t, r) ==
    /\ pc[t] \in {"idle", "done"}
    /\ req' = [req EXCEPT ![t] = r]
    /\ loc' = [loc EXCEPT ![t] = NoLoc]
    /\ env' = None
    /\ ext_calls' = <<>>
    /\ IF r.auth.kind = "none"
       THEN /\ resp' = [resp EXCEPT ![t] = authenticate]
            /\ pc' = [pc EXCEPT ![t] = "done"]
       ELSE /\ resp' = [resp EXCEPT ![t] = None]
            /\ pc' = [pc EXCEPT ![t] = "check57"]
    /\ UNCHANGED <<login_attempts, hist, call, ret>>

\* Lines 56-58: if login_attempts.get(ip, 0) > 5: time.sleep(3)
CheckAuthDelay(t) ==
    /\ pc[t] = "check57"
    /\ loc' = [loc EXCEPT ![t].seen = login_attempts[req[t].ip],
                          ![t].delayed = login_attempts[req[t].ip] > Threshold]
    /\ pc' = [pc EXCEPT ![t] = "check59"]
    /\ UNCHANGED <<login_attempts, req, resp, env, ext_calls, hist, call, ret>>

\* Lines 59-60, the right-hand side: ok, and the value to be stored.  The
\* counter is capped: no failure is counted past MaxAttempts.
CheckAuthRead(t) ==
    /\ pc[t] = "check59"
    /\ Good(req[t]) \/ login_attempts[req[t].ip] < Cap(req[t].ip)
    /\ LET ok == req[t].auth.username = USERNAME /\ req[t].auth.password = PASSWORD
       IN  loc' = [loc EXCEPT ![t].ok = ok,
                              ![t].tmp = IF ok THEN 0
                                         ELSE login_attempts[req[t].ip] + 1]
    /\ pc' = [pc EXCEPT ![t] = "store60"]
    /\ UNCHANGED <<login_attempts, req, resp, env, ext_calls, hist, call, ret>>

\* Line 60, the store, then line 61 and lines 73-75.
CheckAuthStore(t) ==
    /\ pc[t] = "store60"
    /\ loc[t].ok \/ hist[req[t].ip] < Cap(req[t].ip)
    /\ login_attempts' = [login_attempts EXCEPT ![req[t].ip] = loc[t].tmp]
    /\ hist' = [hist EXCEPT ![req[t].ip] = IF loc[t].ok THEN 0 ELSE @ + 1]
    /\ IF loc[t].ok
       THEN /\ pc' = [pc EXCEPT ![t] = "body"]
            /\ resp' = resp
       ELSE /\ pc' = [pc EXCEPT ![t] = "done"]
            /\ resp' = [resp EXCEPT ![t] = authenticate]
    /\ loc' = [loc EXCEPT ![t] = NoLoc]
    /\ UNCHANGED <<req, env, ext_calls, call, ret>>

\* index, dashboard.py:208-209
BodyIndex(t) ==
    /\ pc[t] = "body"
    /\ req[t].route = "index"
    /\ resp' = [resp EXCEPT ![t] = [kind |-> "200", body |-> "dashboard.html"]]
    /\ pc' = [pc EXCEPT ![t] = "done"]
    /\ UNCHANGED <<login_attempts, req, loc, env, ext_calls, hist, call, ret>>

\* api_data, dashboard.py:213-214, on one of the stubbed machines of hosts;
\* an exception of get_system_data leaves Flask to answer 500.
BodyData(t, hosts) ==
    /\ pc[t] = "body"
    /\ req[t].route = "data"
    /\ \E host \in hosts :
          LET r == get_system_data(host)
          IN  /\ env' = host
              /\ ext_calls' = r.calls
              /\ resp' = [resp EXCEPT ![t] =
                            IF r.kind = "ok"
                            THEN [kind |-> "200", body |-> r.value]
                            ELSE [kind |-> "500", exc |-> r.exc]]
    /\ pc' = [pc EXCEPT ![t] = "done"]
    /\ UNCHANGED <<login_attempts, req, loc, hist, call, ret>>

\* request.args.get('lines', 100, type=int), dashboard.py:219
LinesArg(r) == IF r.has_lines THEN r.lines ELSE DefaultLines

\* api_logs, dashboard.py:218-224, with journalctl doing one of runs.
BodyLogs(t, runs) ==
    /\ pc[t] = "body"
    /\ req[t].route = "logs"
    /\ \E run \in runs :
          LET r == api_logs(req[t].service_name, LinesArg(req[t]), run)
          IN  /\ env' = run
              /\ ext_calls' = r.calls
              /\ resp' = [resp EXCEPT ![t] = [kind |-> "200", body |-> r.value]]
    /\ pc' = [pc EXCEPT ![t] = "done"]
    /\ UNCHANGED <<login_attempts, req, loc, hist, call, ret>>

-----------------------------------------------------------------------------
(* The stubbed world: what subprocess.run and psutil may do.               *)

MaxLines == 3
MaxProcs == 15
CpuMod == 37

Ok(text) == [kind |-> "ok", stdout |-> text]
Raise(msg) == [kind |-> "raise", msg |-> msg]

\* str(TimeoutExpired) and str(FileNotFoundError) of subprocess.run; the unit
\* name is one atom, past the first ErrCut characters.
SystemctlTimeout(name) ==
    Raise(<<"C", "o", "m", "m", "a", "n", "d", " ", "'", "[", "'", "s", "y", "s", "t", "e", "m", "c", "t", "l", "'", ",", " ", "'", "s", "t", "a", "t", "u", "s", "'", ",", " ", "'">>
          \o <<name>> \o
          <<"'", "]", "'", " ", "t", "i", "m", "e", "d", " ", "o", "u", "t", " ", "a", "f", "t", "e", "r", " ", "2", " ", "s", "e", "c", "o", "n", "d", "s">>)
SystemctlMissing ==
    Raise(<<"[", "E", "r", "r", "n", "o", " ", "2", "]", " ", "N", "o", " ", "s", "u", "c", "h", " ", "f", "i", "l", "e", " ", "o", "r", " ", "d", "i", "r", "e", "c", "t", "o", "r", "y", ":", " ", "'", "s", "y", "s", "t", "e", "m", "c", "t", "l", "'">>)
JournalctlTimeout(name) ==
    Raise(<<"C", "o", "m", "m", "a", "n", "d", " ", "'", "[", "'", "j", "o", "u", "r", "n", "a", "l", "c", "t", "l", "'", ",", " ", "'", "-", "u", "'", ",", " ", "'">>
          \o <<name>> \o
          <<"'", ",", " ", "'", "-", "n", "'", ",", " ", "'", "1", "0", "0", "'", ",", " ", "'", "-", "-", "n", "o", "-", "p", "a", "g", "e", "r", "'", "]", "'", " ", "t", "i", "m", "e", "d", " ", "o", "u", "t", " ", "a", "f", "t", "e", "r", " ", "5", " ", "s", "e", "c", "o", "n", "d", "s">>)
JournalctlMissing ==
    Raise(<<"[", "E", "r", "r", "n", "o", " ", "2", "]", " ", "N", "o", " ", "s", "u", "c", "h", " ", "f", "i", "l", "e", " ", "o", "r", " ", "d", "i", "r", "e", "c", "t", "o", "r", "y", ":", " ", "'", "j", "o", "u", "r", "n", "a", "l", "c", "t", "l", "'">>)
\* An exception with a short text, and one with none (MemoryError()).
ShortError == Raise(<<"k", "i", "l", "l", "e", "d">>)
EmptyError == Raise(<<>>)

\* Lines of systemctl status output, as atoms.
LineLib ==
    << <<" ", " ", " ", "Active:", " ", "active", " ", "(", "running", ")", " ",
         "since", " ", "Mon">>,
       <<" ", " ", " ", "Active:", " ", "failed">>,
       <<" ", " ", " ", "Loaded:", " ", "loaded", " ", "(", "/lib/systemd", ")">>,
       <<"Active:">>,
       <<" ", "Active:", " ", " ", "inactive", " ", "(", "(", "dead", ")", " ">>,
       <<"Jan", " ", "host", " ", "app:", " ", "Active:", " ", "3", " ", "users">>,
       <<>>,
       <<"\t", "Active:", " ", "activating", " ", ")", "(">> >>

RECURSIVE JoinLines(_)
JoinLines(ls) ==
    IF ls = <<>> THEN <<>>
    ELSE IF Len(ls) = 1 THEN Head(ls)
    ELSE Head(ls) \o <<"\n">> \o JoinLines(Tail(ls))

\* Every text of at most MaxLines lines of LineLib.
StatusTexts ==
    { JoinLines([i \in DOMAIN pick |-> LineLib[pick[i]]]) :
        pick \in UNION {[1..n -> DOMAIN LineLib] : n \in 0..MaxLines} }

TextRunning == JoinLines(<<<<"nginx.service">>, LineLib[3], LineLib[1]>>)

SystemctlRuns(name) ==
    {Ok(x) : x \in StatusTexts}
      \cup {SystemctlTimeout(name), SystemctlMissing, ShortError, EmptyError}

TextNotFound == JoinLines(<<<<"cron.service">>, LineLib[3], <<>>>>)

\* The outcomes of one service query inside a snapshot.
SvcOutcomes(name) ==
    <<Ok(TextRunning), Ok(<<>>), SystemctlTimeout(name), SystemctlMissing,
      ShortError, Ok(TextNotFound)>>

SvcCombos == [1..Len(SERVICES) -> DOMAIN SvcOutcomes("")]

SvcOf(f) == [i \in 1..Len(SERVICES) |-> SvcOutcomes(SERVICES[i])[f[i]]]

AllRunning == SvcOf([i \in 1..Len(SERVICES) |-> 1])
Mixed == SvcOf([i \in 1..Len(SERVICES) |-> 1 + (i % 4)])

LogText == <<"Jan", " ", "host", " ", "started", "\n">>

JournalctlRuns(name) ==
    {Ok(LogText), Ok(<<>>), JournalctlTimeout(name), JournalctlMissing,
     ShortError, EmptyError}

Chars(n, c) == [i \in 1..n |-> c]

\* Process i of a synthetic process table: CPU% a*i+b (mod CpuMod) sixteenths,
\* with pattern pat of processes that vanish, deny access or break.
ProcAt(i, a, b, pat) ==
    [pid            |-> 100 + i,
     name           |-> Chars(NameCut - 2 + (i % 4), "n"),
     cpu_percent    |-> (a * i + b) % CpuMod,
     memory_percent |-> (3 * i) % CpuMod,
     username       |-> Chars(UserCut - 1 + (i % 3), "u"),
     state          |-> IF pat >= 1 /\ i % 6 = 2 THEN "NoSuchProcess"
                        ELSE IF pat >= 1 /\ i % 7 = 0 THEN "AccessDenied"
                        ELSE IF pat = 2 /\ i = 12 THEN "TypeError"
                        ELSE "ok"]

ProcTables ==
    { [i \in 1..n |-> ProcAt(i, a, b, pat)] :
        n \in 0..MaxProcs, a \in {0, 1, 7}, b \in {0, 3}, pat \in 0..2 }

Limbs(n) == <<n % Kilo, (n \div Kilo) % Kilo, n \div (Kilo * Kilo)>>

Readings ==
    { [cpu_percent |-> 125, cpu_count |-> 4, load_avg |-> <<52, 48, 40>>,
       mem_total |-> <<0, 0, 0, 8>>, mem_used |-> <<0, 512, 256, 3>>,
       mem_available |-> <<0, 512, 768, 4>>, mem_percent |-> 41,
       disk_total |-> <<0, 0, 0, 0, 1>>, disk_used |-> <<0, 0, 512, 200>>,
       disk_free |-> <<0, 0, 512, 823>>, disk_percent |-> 20,
       net_sent |-> Limbs(1536 + k), net_recv |-> <<1023, 1023, k>>,
       now |-> 1000000 + 90061 + k, boot_time |-> 1000000] : k \in {0, 1} }

\* Machines: every combination of service outcomes on one process table, and
\* every process table on two combinations; after a failed metric read the
\* rest of the machine is never looked at.
Hosts ==
    { [reading |-> CHOOSE r \in Readings : r.net_recv[3] = 0, failing |-> {},
       svc |-> SvcOf(f), procs |-> [i \in 1..3 |-> ProcAt(i, 7, 0, 1)]] :
        f \in SvcCombos }
    \cup
    { [reading |-> r, failing |-> {}, svc |-> sv, procs |-> pt] :
        r \in Readings, sv \in {AllRunning, Mixed}, pt \in ProcTables }
    \cup
    { [reading |-> r, failing |-> fl, svc |-> Mixed, procs |-> <<>>] :
        r \in Readings,
        fl \in {{x} : x \in Range(MetricReads) \cup {"process_iter"}}
               \cup {{"disk_usage", "boot_time"}, {"cpu_percent", "process_iter"}} }

Credentials ==
    {None, Basic(USERNAME, PASSWORD), Basic(USERNAME, "guess"), Basic("root", PASSWORD)}

\* New failing attempts stop once the counter has reached its cap.
Room(r) ==
    Good(r) \/ (login_attempts[r.ip] < Cap(r.ip) /\ hist[r.ip] < Cap(r.ip))

IndexRequests ==
    {[route |-> "index", ip |-> ip, auth |-> a] :
        ip \in IPs, a \in {None, Basic(USERNAME, PASSWORD), Basic(USERNAME, "guess")}}
DataRequests == {[route |-> "data", ip |-> "10.0.0.1", auth |-> a] : a \in Credentials}

ServiceNames == Range(SERVICES) \cup {"cron", "../etc"}

LogRequests ==
    {[route |-> "logs", ip |-> "10.0.0.1", auth |-> a, service_name |-> n,
      has_lines |-> h, lines |-> IF h THEN 5 ELSE 0] :
        a \in Credentials, n \in ServiceNames, h \in BOOLEAN}

-----------------------------------------------------------------------------
(* Specifications.                                                         *)

RequestIndex(t) == \E r \in IndexRequests : Room(r) /\ Request(t, r)
RequestData(t) == \E r \in DataRequests : Room(r) /\ Request(t, r)
RequestLogs(t) == \E r \in LogRequests : Room(r) /\ Request(t, r)
ApiData(t) == BodyData(t, Hosts)
ApiLogs(t) == BodyLogs(t, JournalctlRuns(req[t].service_name))

\* Concurrent requests for / from two clients.
NextAuth ==
    \E t \in Threads :
        \/ RequestIndex(t)
        \/ CheckAuthDelay(t)
        \/ CheckAuthRead(t)
        \/ CheckAuthStore(t)
        \/ BodyIndex(t)

SpecAuth == Init /\ [][NextAuth]_vars

\* One client polling /api/data.
NextData ==
    \/ RequestData("t1")
    \/ CheckAuthDelay("t1")
    \/ CheckAuthRead("t1")
    \/ CheckAuthStore("t1")
    \/ ApiData("t1")

SpecData == Init /\ [][NextData]_vars

\* One client asking /api/logs/<service_name>.
NextLogs ==
    \/ RequestLogs("t1")
    \/ CheckAuthDelay("t1")
    \/ CheckAuthRead("t1")
    \/ CheckAuthStore("t1")
    \/ ApiLogs("t1")

SpecLogs == Init /\ [][NextLogs]_vars

\* get_service_status applied to any name and any behaviour of systemctl.
CallQuery ==
    /\ call = None
    /\ \E name \in ServiceNames :
         \E run \in SystemctlRuns(name) :
            /\ call' = [fn |-> "get_service_status", service_name |-> name, run |-> run]
            /\ ret' = get_service_status(name, run)
    /\ UNCHANGED <<login_attempts, pc, req, loc, resp, env, ext_calls, hist>>

NextQuery == CallQuery

SpecQuery == Init /\ [][NextQuery]_vars

\* Byte counts: up to three non-zero limbs, shifted up by whole limbs.
MaxShift == 4

LimbVals == {0, 1, 51, 52, 128, 256, 512, 768, 1023}
TopVals == {0, 1, 2, 100}

ByteInputs ==
    { [i \in 1..z |-> 0] \o <<c, b, a>> :
        z \in 0..MaxShift, a \in TopVals, b \in LimbVals, c \in LimbVals }

CallFormat ==
    /\ call = None
    /\ \E b \in ByteInputs :
          /\ call' = [fn |-> "format_bytes", bytes |-> b]
          /\ ret' = format_bytes(b)
    /\ UNCHANGED <<login_attempts, pc, req, loc, resp, env, ext_calls, hist>>

NextFormat == CallFormat

SpecFormat == Init /\ [][NextFormat]_vars

-----------------------------------------------------------------------------
(* Properties.                                                             *)

Done(t, route) == pc[t] = "done" /\ req[t].route = route

\* The handler body ran (the request passed the gate).
Served(t, route) == Done(t, route) /\ resp[t].kind # "401"

Snapshot(t) == Served(t, "data") /\ resp[t].kind = "200"

Allowed(name) == \E i \in DOMAIN SERVICES : SERVICES[i] = name

Min(a, b) == IF a < b THEN a ELSE b
Abs(a) == IF a < 0 THEN -a ELSE a

\* C1: a log request for a name outside the allow-list answers the
\* "not allowed" sentinel and journalctl is not invoked for it.
C1_RejectedBeforeJournalctl ==
    \A t \in Threads :
        (Served(t, "logs") /\ ~Allowed(req[t].service_name)) =>
            /\ resp[t].kind = "200"
            /\ resp[t].body = [service |-> "not allowed", logs |-> <<"not allowed">>]
            /\ \A i \in DOMAIN ext_calls : ext_calls[i].cmd # "journalctl"

\* C2: the services list of every snapshot has one entry per allow-listed
\* name, in allow-list order, whatever the service queries did.
C2_ServicesFollowAllowList ==
    \A t \in Threads :
        Snapshot(t) =>
            LET services == resp[t].body.services
            IN  /\ Len(services) = Len(SERVICES)
                /\ \A i \in 1..Len(SERVICES) : services[i].name = SERVICES[i]

\* A snapshot built while queries timed out, lacked the binary, printed no
\* "Active:" line and succeeded.
C2_Witness ==
    /\ Snapshot("t1")
    /\ {env.svc[i].kind : i \in DOMAIN env.svc} = {"ok", "raise"}
    /\ \E i \in DOMAIN env.svc : env.svc[i] = SystemctlMissing
    /\ \E i \in DOMAIN env.svc : env.svc[i] = SystemctlTimeout(SERVICES[i])
    /\ \E i \in DOMAIN env.svc : env.svc[i] = Ok(<<>>)
    /\ \E i \in DOMAIN env.svc : resp["t1"].body.services[i].active = <<"active">>

\* C3: a failed metric read (process enumeration included) fails the whole
\* request and no snapshot is returned; a returned snapshot carries every
\* metric of the reading, none of them a placeholder.
C3_BuildIsAtomic ==
    \A t \in Threads :
        Served(t, "data") =>
            /\ env.failing # {} => resp[t].kind = "500"
            /\ resp[t].kind = "200" =>
                  /\ env.failing = {}
                  /\ DOMAIN resp[t].body.metrics =
                        {"cpu_percent", "cpu_count", "load_avg", "mem_total",
                         "mem_used", "mem_available", "mem_percent", "disk_total",
                         "disk_used", "disk_free", "disk_percent", "net_sent",
                         "net_recv", "uptime"}
                  /\ resp[t].body.metrics.cpu_percent = env.reading.cpu_percent
                  /\ resp[t].body.metrics.mem_percent = env.reading.mem_percent
                  /\ resp[t].body.metrics.disk_percent = env.reading.disk_percent

\* The disk read failed after the CPU and memory reads had succeeded.
C3_Witness ==
    /\ Served("t1", "data")
    /\ "disk_usage" \in env.failing
    /\ "cpu_percent" \notin env.failing
    /\ resp["t1"].kind = "500"

\* C4: a failed service query never fails the snapshot: the entry reads
\* active "error" with the first 20 characters of the error text, or
\* "unknown"/"unknown" when the query ran and printed no "Active:" line.
C4_QueryFailureIsDegraded ==
    \A t \in Threads :
        Served(t, "data") =>
            /\ (env.failing = {}
                  /\ \A i \in DOMAIN env.procs :
                        env.procs[i].state \in {"ok", "NoSuchProcess", "AccessDenied"})
                  => resp[t].kind = "200"
            /\ resp[t].kind = "200" =>
                  \A i \in DOMAIN env.svc :
                     LET e == resp[t].body.services[i]
                         r == env.svc[i]
                     IN  /\ r.kind = "raise" =>
                               /\ e.active = <<"error">>
                               /\ Len(e.sub) = Min(20, Len(r.msg))
                               /\ \A j \in 1..Len(e.sub) : e.sub[j] = r.msg[j]
                         /\ (r.kind = "ok"
                               /\ \A j \in DOMAIN r.stdout : r.stdout[j] # "Active:")
                               => (e.active = <<"unknown">> /\ e.sub = <<"unknown">>)

\* A snapshot with a timed-out query (text longer than 20 characters), a
\* failure with a short text and a query that printed no "Active:" line.
C4_Witness ==
    /\ Snapshot("t1")
    /\ \E i \in DOMAIN env.svc :
          /\ env.svc[i] = SystemctlTimeout(SERVICES[i])
          /\ Len(resp["t1"].body.services[i].sub) = 20
    /\ \E i \in DOMAIN env.svc :
          /\ env.svc[i] = ShortError
          /\ resp["t1"].body.services[i].sub = ShortError.msg
    /\ \E i \in DOMAIN env.svc :
          /\ env.svc[i] = Ok(TextNotFound)
          /\ resp["t1"].body.services[i].active = <<"unknown">>

\* C5: get_service_status answers a name outside the allow-list with a
\* sentinel that is not the technical-failure result, without invoking
\* systemctl.
C5_InspectorRejects ==
    (call # None /\ call.fn = "get_service_status"
        /\ ~Allowed(call.service_name)) =>
            /\ ret.calls = <<>>
            /\ ret.value.active # <<"error">>

\* The tokens of a line, and whether it carries the marker with a state.
Tokens(raw) == SplitWs(Strip(raw, Whitespace), <<>>)
StateLines(text) ==
    {l \in Range(SplitSep(text, "\n", <<>>)) : HasMarker(l) /\ Len(Tokens(l)) >= 2}

\* C6: active is the second token of a line containing "Active:" and sub is
\* the third token of that same line without its parentheses; without such
\* a line both are "unknown".
C6_StateFromOneLine ==
    (call # None /\ call.fn = "get_service_status" /\ call.run.kind = "ok") =>
        LET ls == StateLines(call.run.stdout)
        IN  IF ls = {}
            THEN ret.value.active = <<"unknown">> /\ ret.value.sub = <<"unknown">>
            ELSE \E l \in ls :
                    /\ ret.value.active = Tokens(l)[2]
                    /\ ret.value.sub =
                          IF Len(Tokens(l)) >= 3
                          THEN Strip(Tokens(l)[3], {"(", ")"})
                          ELSE <<"unknown">>

\* C7: when journalctl fails for an allow-listed name the request is still
\* answered, with the name and an error string in place of the logs.
C7_LogFailureIsReported ==
    \A t \in Threads :
        Served(t, "logs") =>
            /\ resp[t].kind = "200"
            /\ (Allowed(req[t].service_name) /\ env.kind = "raise") =>
                  /\ resp[t].body.service = req[t].service_name
                  /\ resp[t].body.logs = <<"Error fetching logs: ">> \o env.msg

\* journalctl timed out for nginx and the request was answered.
C7_Witness ==
    /\ Served("t1", "logs")
    /\ req["t1"].service_name = "nginx"
    /\ env = JournalctlTimeout("nginx")
    /\ resp["t1"].kind = "200"
    /\ Len(resp["t1"].body.logs) > 1

Readable(procs) == SelectSeq(procs, LAMBDA p : p.state = "ok")
Pids(list) == {list[i].pid : i \in DOMAIN list}
RawCpu(pid, procs) == (CHOOSE p \in Range(procs) : p.pid = pid).cpu_percent

\* What C8 says of a list but for its order.
TopShape(t) ==
    LET top == resp[t].body.top_processes
        rd  == Readable(env.procs)
    IN  /\ Len(top) = Min(10, Len(rd))
        /\ Pids(top) \subseteq Pids(rd)
        /\ Cardinality(Pids(top)) = Len(top)

\* No error of a vanished or access-denied process fails the snapshot.
SkipsAreSilent(t) ==
    (env.failing = {}
       /\ \A i \in DOMAIN env.procs :
             env.procs[i].state \in {"ok", "NoSuchProcess", "AccessDenied"})
       => resp[t].kind = "200"

TopLimb(v) ==
    IF \A i \in DOMAIN v : v[i] = 0 THEN 1
    ELSE CHOOSE i \in DOMAIN v : v[i] # 0 /\ \A j \in DOMAIN v : j > i => v[j] = 0

\* C9: the count is rendered to one decimal in the first unit of B, KB, MB,
\* GB, TB, PB in which it is below 1024, and in PB beyond; format(0) =
\* "0.0B", format(1023) = "1023.0B", format(1024) = "1.0KB", format(1536) =
\* "1.5KB", format(1024**4) = "1.0TB".
C9_FormatBytes ==
    (call # None /\ call.fn = "format_bytes") =>
        LET v  == call.bytes
            k  == Min(TopLimb(v), 6)
            w  == LimbsValue(SubSeq(v, k, Len(v)))
            f1 == IF k >= 2 THEN v[k - 1] ELSE 0
            f2 == IF k >= 3 THEN v[k - 2] ELSE 0
            tf == 10 * ret.int + ret.dec - 10 * w
        IN  /\ ret.unit = <<"B", "KB", "MB", "GB", "TB", "PB">>[k]
            /\ ret.dec \in 0..9
            /\ (\A i \in 1..(k - 3) : v[i] = 0) =>
                  /\ tf \in 0..10
                  /\ 2 * Abs(10 * (1024 * f1 + f2) - 1024 * 1024 * tf) <= 1024 * 1024
            /\ v = <<0, 0, 0>> => ret = [int |-> 0, dec |-> 0, unit |-> "B"]
            /\ v = <<1023, 0, 0>> => ret = [int |-> 1023, dec |-> 0, unit |-> "B"]
            /\ v = <<0, 1, 0>> => ret = [int |-> 1, dec |-> 0, unit |-> "KB"]
            /\ v = <<512, 1, 0>> => ret = [int |-> 1, dec |-> 5, unit |-> "KB"]
            /\ v = <<0, 0, 0, 0, 1>> => ret = [int |-> 1, dec |-> 0, unit |-> "TB"]

\* 1024**4 rendered "1.0TB".
C9_Witness ==
    /\ call # None /\ call.fn = "format_bytes"
    /\ call.bytes = <<0, 0, 0, 0, 1>>
    /\ ret = [int |-> 1, dec |-> 0, unit |-> "TB"]

\* C10: whenever no attempt is in flight login_attempts[ip] is the number of
\* failed attempts from ip since its last accepted one; an attempt sleeps
\* exactly when the count it found was above 5; credentials are accepted
\* exactly when they are the configured ones.
C10_CountsConsecutiveFailures ==
    /\ (\A t \in Threads : pc[t] \in {"idle", "done"}) =>
          \A ip \in IPs : login_attempts[ip] = hist[ip]
    /\ \A t \in Threads :
          pc[t] \in {"check59", "store60"} => (loc[t].delayed <=> loc[t].seen > 5)
    /\ \A t \in Threads :
          pc[t] = "done" => (resp[t].kind = "401" <=> ~Good(req[t]))

====
